---------------------------- MODULE Spec2Model ----------------------------
(***************************************************************************)
(* AdaptiveKalmanFilterStrategy (pyquantlab/adaptive_kalman_filter):       *)
(* a two-state (level, velocity) Kalman filter whose noise parameters Q    *)
(* and R are recomputed from a rolling volatility on every bar, driven     *)
(* once per bar through next().                                            *)
(*                                                                         *)
(* Numbers.  The strategy computes in IEEE-754 binary64 (numpy float64).   *)
(* The model computes in a floating-point format of the same shape with a  *)
(* shorter significand: sign, FloatDigits decimal digits, an unbounded     *)
(* exponent, NaN and the two infinities, every operation rounded to        *)
(* nearest, ties to even.  Rounding, absorption (1 + tiny = 1),            *)
(* cancellation and the propagation of NaN and infinity behave as in       *)
(* binary64; overflow, underflow and the sign of zero are not modelled.    *)
(*                                                                         *)
(* Inputs.  Each bar hands next() a close and a volatility.  The close is  *)
(* a number, NaN or +infinity; the volatility is missing (NaN) until       *)
(* vol_period log returns exist and afterwards NaN or any finite number,   *)
(* also zero or negative.  next() tests the two separately, so the model   *)
(* chooses them separately.                                                *)
(***************************************************************************)
EXTENDS Integers, Sequences, FiniteSets, TLC

(***************************************************************************)
(* Floating-point values: [k, m, e].  k = "fin": the number m * 10^e with  *)
(* m = 0 (and e = 0) or 10^(FloatDigits-1) <= |m| < 10^FloatDigits;       *)
(* k = "inf": the infinity of sign m; k = "nan": not a number.             *)
(***************************************************************************)
FloatDigits == 4

\* 10^n and the number of decimal digits of n, for the integers TLC can hold
Pow10(n) == <<1, 10, 100, 1000, 10000, 100000, 1000000, 10000000,
              100000000, 1000000000>>[n + 1]
NumDigits(n) ==
    IF n < 100000
    THEN (IF n < 100 THEN (IF n < 10 THEN 1 ELSE 2)
          ELSE IF n < 1000 THEN 3 ELSE IF n < 10000 THEN 4 ELSE 5)
    ELSE (IF n < 10000000 THEN (IF n < 1000000 THEN 6 ELSE 7)
          ELSE IF n < 100000000 THEN 8 ELSE IF n < 1000000000 THEN 9 ELSE 10)

Abs(n) == IF n < 0 THEN -n ELSE n
Sgn(n) == IF n < 0 THEN -1 ELSE IF n > 0 THEN 1 ELSE 0

NaN == [k |-> "nan", m |-> 0, e |-> 0]
Inf(s) == [k |-> "inf", m |-> s, e |-> 0]
Fin(m, e) == [k |-> "fin", m |-> m, e |-> e]
Zero == Fin(0, 0)

IsNaN(a) == a.k = "nan"
IsInf(a) == a.k = "inf"
IsFinite(a) == a.k = "fin"

\* s * n * 10^e (n >= 0; sticky: digits beyond n are not all zero) rounded to
\* FloatDigits significant digits, to nearest, ties to even.
Round(s, n, e, sticky) ==
    IF n = 0 THEN Zero
    ELSE LET d == NumDigits(n) IN
         IF d <= FloatDigits
         THEN Fin(s * n * Pow10(FloatDigits - d), e - (FloatDigits - d))
         ELSE LET k  == d - FloatDigits
                  q  == n \div Pow10(k)
                  r  == n % Pow10(k)
                  up == \/ 2 * r > Pow10(k)
                        \/ 2 * r = Pow10(k) /\ (sticky \/ q % 2 = 1)
                  q1 == IF up THEN q + 1 ELSE q
              IN  IF q1 = Pow10(FloatDigits)
                  THEN Fin(s * Pow10(FloatDigits - 1), e + k + 1)
                  ELSE Fin(s * q1, e + k)

FNeg(a) == IF IsNaN(a) THEN NaN ELSE [a EXCEPT !.m = -a.m]
FAbs(a) == IF IsNaN(a) THEN NaN ELSE [a EXCEPT !.m = Abs(a.m)]

\* a + b
FAdd(a, b) ==
    IF IsNaN(a) \/ IsNaN(b) THEN NaN
    ELSE IF IsInf(a) THEN (IF IsInf(b) /\ b.m # a.m THEN NaN ELSE a)
    ELSE IF IsInf(b) THEN b
    ELSE IF a.m = 0 THEN b
    ELSE IF b.m = 0 THEN a
    ELSE LET hi == IF a.e >= b.e THEN a ELSE b
             lo == IF a.e >= b.e THEN b ELSE a
             diff == hi.e - lo.e
         IN  IF diff > FloatDigits + 1 THEN hi
             ELSE LET n == hi.m * Pow10(diff) + lo.m
                  IN  Round(Sgn(n), Abs(n), lo.e, FALSE)

FSub(a, b) == FAdd(a, FNeg(b))

\* a * b
FMul(a, b) ==
    IF IsNaN(a) \/ IsNaN(b) THEN NaN
    ELSE IF IsInf(a) \/ IsInf(b)
         THEN (IF a.m = 0 \/ b.m = 0 THEN NaN ELSE Inf(Sgn(a.m) * Sgn(b.m)))
    ELSE Round(Sgn(a.m) * Sgn(b.m), Abs(a.m) * Abs(b.m), a.e + b.e, FALSE)

\* a / b as numpy divides float64: x/0 is an infinity, 0/0 is NaN, no exception
FDiv(a, b) ==
    IF IsNaN(a) \/ IsNaN(b) THEN NaN
    ELSE IF IsInf(a)
         THEN (IF IsInf(b) THEN NaN
               ELSE Inf(Sgn(a.m) * (IF b.m < 0 THEN -1 ELSE 1)))
    ELSE IF IsInf(b) THEN Zero
    ELSE IF b.m = 0 THEN (IF a.m = 0 THEN NaN ELSE Inf(Sgn(a.m)))
    ELSE IF a.m = 0 THEN Zero
    ELSE LET num == Abs(a.m) * Pow10(FloatDigits + 1)
             den == Abs(b.m)
         IN  Round(Sgn(a.m) * Sgn(b.m), num \div den,
                   a.e - b.e - (FloatDigits + 1), num % den # 0)

\* a < b, a > b, a <= b (every comparison with NaN is false)
FLt(a, b) ==
    /\ ~IsNaN(a)
    /\ ~IsNaN(b)
    /\ a # b
    /\ FSub(b, a).m > 0
FGt(a, b) == FLt(b, a)
FLe(a, b) == ~IsNaN(a) /\ ~IsNaN(b) /\ (a = b \/ FLt(a, b))


(***************************************************************************)
(* numpy arrays: a matrix is a sequence of rows, a 1-D array a sequence.   *)
(***************************************************************************)
\* The arrays of the strategy have one or two rows and one or two columns.
\* A.dot(B): every entry is the sum of the products along the inner dimension
Inner(A, B, i, j) ==
    IF Len(B) = 1 THEN FMul(A[i][1], B[1][j])
    ELSE FAdd(FMul(A[i][1], B[1][j]), FMul(A[i][2], B[2][j]))
DotRow(A, B, i) ==
    IF Len(B[1]) = 1 THEN <<Inner(A, B, i, 1)>>
    ELSE <<Inner(A, B, i, 1), Inner(A, B, i, 2)>>
MatMul(A, B) ==
    IF Len(A) = 1 THEN <<DotRow(A, B, 1)>> ELSE <<DotRow(A, B, 1), DotRow(A, B, 2)>>
\* A.dot(v) for a 1-D v of two elements
VecEntry(A, v, i) == FAdd(FMul(A[i][1], v[1]), FMul(A[i][2], v[2]))
MatVec(A, v) ==
    IF Len(A) = 1 THEN <<VecEntry(A, v, 1)>> ELSE <<VecEntry(A, v, 1), VecEntry(A, v, 2)>>
\* A.T
Transpose(A) ==
    IF Len(A) = 1 THEN <<<<A[1][1]>>, <<A[1][2]>>>>
    ELSE <<<<A[1][1], A[2][1]>>, <<A[1][2], A[2][2]>>>>
\* A + B, A - B, A * c, A / c, element by element, for two rows
AddRow(r, t) == IF Len(r) = 1 THEN <<FAdd(r[1], t[1])>> ELSE <<FAdd(r[1], t[1]), FAdd(r[2], t[2])>>
SubRow(r, t) == IF Len(r) = 1 THEN <<FSub(r[1], t[1])>> ELSE <<FSub(r[1], t[1]), FSub(r[2], t[2])>>
ScaleRow(r, c) == IF Len(r) = 1 THEN <<FMul(r[1], c)>> ELSE <<FMul(r[1], c), FMul(r[2], c)>>
DivRow(r, c) == IF Len(r) = 1 THEN <<FDiv(r[1], c)>> ELSE <<FDiv(r[1], c), FDiv(r[2], c)>>
MatAdd(A, B) == <<AddRow(A[1], B[1]), AddRow(A[2], B[2])>>
MatSub(A, B) == <<SubRow(A[1], B[1]), SubRow(A[2], B[2])>>
MatScale(A, c) == <<ScaleRow(A[1], c), ScaleRow(A[2], c)>>
MatDiv(A, c) == <<DivRow(A[1], c), DivRow(A[2], c)>>

\* the float nearest to the decimal literal n * 10^e
Lit(n, e) == Round(Sgn(n), Abs(n), e, FALSE)
One == Lit(1, 0)
Eye2 == <<<<One, Zero>>, <<Zero, One>>>>

(***************************************************************************)
(* params: the defaults of the class.  run_rolling_backtest passes         *)
(* strategy_params through; the model varies vol_period only.              *)
(***************************************************************************)
delta          == Lit(1, -4)
R_base         == Lit(1, -1)
R_scale        == Lit(1, 0)
Q_scale_factor == Lit(5, -1)
initial_cov    == Lit(1, 0)
VolFloor       == Lit(1, -8)       \* the literal in max(vol, 1e-8)
DefaultVolPeriod == 20

\* __init__: the constant matrices of the filter
F == <<<<One, One>>, <<Zero, One>>>>
H == <<<<One, Zero>>>>
I == Eye2

(***************************************************************************)
(* Bounds of the model and the values the data feed may deliver.           *)
(***************************************************************************)
MaxBars == 4                        \* bars run after the volatility window has filled
ShortVolPeriod == 2                 \* a second, short vol_period next to the default
VolPeriods == {ShortVolPeriod, DefaultVolPeriod}
Prices == <<Lit(101, 0), Lit(99, 0)>>                   \* valid closes
BadPrices == <<NaN, Inf(1)>>                            \* closes that are no number
Vols == <<Lit(4, -2), Lit(5, 0), Zero, Lit(-1, 0)>>     \* 0.04, 5, 0, -1
LineNames == {"kf_price", "kf_velocity", "adaptive_R", "adaptive_Q0", "adaptive_Q1"}

VARIABLES
    vol_period,    \* params.vol_period
    barlen,        \* len(self): bars delivered so far
    close,         \* self.data_close[0]
    volatility,    \* self.volatility[0]
    initialized,   \* self.initialized
    x,             \* self.x = [level, velocity]
    P,             \* self.P, 2x2
    Q,             \* self.Q, 2x2
    R,             \* self.R
    lines,         \* index 0 of the five output lines
    position,      \* sign of self.position.size
    orders,        \* orders submitted by the latest next(), in order
    path,          \* where the latest next() returned: "wait", "nan" or "cycle"
    kf_init_logs,  \* number of 'KF initialized' lines printed
    cycles,        \* number of filter cycles completed (bars with an estimate)
    last_S,        \* the local S of the latest filter cycle (NaN before the first)
    flips,         \* number of cycles that changed the sign of the velocity
    scenario,      \* the price series fed, when it is a fixed one
    noise_in,      \* noise response: the two volatilities handed to the Adapt step
    noise_out,     \* noise response: <<[R, q] for the first, [R, q] for the second>>
    roll,          \* run_rolling_backtest: its locals and the windows visited
    strat,         \* a strategy that tracks self.order or a trailing stop: its attributes
    broker         \* the backtest engine of that strategy: position, orders, notifications

vars == <<vol_period, barlen, close, volatility, initialized, x, P, Q, R,
          lines, position, orders, path, kf_init_logs, cycles, last_S,
          flips, scenario, noise_in, noise_out, roll, strat, broker>>

\* the variables of AdaptiveKalmanFilterStrategy and of its feed
kalmanVars == <<vol_period, barlen, close, volatility, initialized, x, P, Q, R,
                lines, position, orders, path, kf_init_logs, cycles, last_S,
                flips, scenario, noise_in, noise_out>>


(***************************************************************************)
(* __init__                                                                *)
(***************************************************************************)
BlankLines == [ln \in LineNames |-> NaN]

\* run_rolling_backtest not called; none of the other strategies constructed
NoRoll == [impl |-> "none"]
NoStrat == [name |-> "none"]
NoBroker == [barno |-> 0]

\* no fixed price series: the feed delivers any of its values on every bar
NoScenario == [kind |-> "none", slope |-> 0, vol |-> NaN]

InitState ==
    /\ barlen = 0
    /\ close = NaN
    /\ volatility = NaN
    /\ initialized = FALSE
    /\ x = <<Zero, Zero>>
    /\ P = MatScale(Eye2, initial_cov)
    /\ Q = MatScale(Eye2, delta)
    /\ R = R_base
    /\ lines = BlankLines
    /\ position = 0
    /\ orders = <<>>
    /\ path = "init"
    /\ kf_init_logs = 0
    /\ cycles = 0
    /\ last_S = NaN
    /\ flips = 0

\* nothing but AdaptiveKalmanFilterStrategy runs
KalmanOnly == roll = NoRoll /\ strat = NoStrat /\ broker = NoBroker

InitStrategy ==
    /\ vol_period \in VolPeriods
    /\ InitState
    /\ KalmanOnly
    /\ scenario = NoScenario

Init ==
    /\ InitStrategy
    /\ noise_in = <<NaN, NaN>>
    /\ noise_out = <<>>

(***************************************************************************)
(* The collaborators of next(): the data feed and the broker.              *)
(***************************************************************************)
\* The close of bar n in a fixed series, in tenths: 100.0 throughout;
\* 100 up to bar 21, then 110; or 30 bars up from 100 and 30 bars down again,
\* slope tenths a bar.
ScenarioTenths(n) ==
    IF scenario.kind = "step" THEN (IF n <= 21 THEN 1000 ELSE 1100)
    ELSE IF scenario.kind = "trend"
         THEN (IF n <= 30 THEN 1000 + scenario.slope * n
               ELSE 1000 + scenario.slope * 30 - scenario.slope * (n - 30))
    ELSE 1000
\* the number of bars of a fixed series
ScenarioSteps ==
    IF scenario.kind = "constant" THEN 25
    ELSE IF scenario.kind = "step" THEN 40
    ELSE 60
\* the number of bars the feed delivers
FeedEnd ==
    IF scenario.kind = "none" THEN vol_period + MaxBars ELSE ScenarioSteps

\* self.data_close[0]: any of the closes, or the close of the fixed series
FeedClose ==
    IF scenario.kind = "none" THEN Prices \o BadPrices
    ELSE <<Lit(ScenarioTenths(barlen + 1), -1)>>
\* self.volatility[0] on bar n: missing until vol_period log returns exist,
\* afterwards any value or missing, or the volatility of the fixed series
FeedVolatility(n) ==
    IF n <= vol_period THEN <<NaN>>
    ELSE IF scenario.kind = "none" THEN Vols \o <<NaN>>
    ELSE <<scenario.vol>>

\* The position after the broker has executed, at the open of the new bar,
\* the market orders submitted on the bar before.
OrderEffect(pos, o) ==
    IF o = "close" THEN 0 ELSE IF o = "buy" THEN pos + 1 ELSE pos - 1
RECURSIVE BrokerFill(_, _)
BrokerFill(pos, ords) ==
    IF ords = <<>> THEN pos
    ELSE BrokerFill(OrderEffect(pos, Head(ords)), Tail(ords))

(***************************************************************************)
(* next(), piece by piece                                                  *)
(***************************************************************************)
\* faulty variant: the volatility is not tested for NaN
CanInitialize_NoVolTest(len, vol) == len > vol_period

\* line 70: the test that lets the filter initialise
CanInitialize(len, vol) == len > vol_period /\ ~IsNaN(vol)

\* faulty variant: the initialized flag is not raised
InitializeKalman_NoFlag(price) ==
    /\ x' = <<price, Zero>>
    /\ P' = MatScale(Eye2, initial_cov)
    /\ initialized' = initialized
    /\ kf_init_logs' = kf_init_logs + 1

\* faulty variant: the level is not seeded with the price
InitializeKalman_NoLevel(price) ==
    /\ x' = x
    /\ P' = MatScale(Eye2, initial_cov)
    /\ initialized' = TRUE
    /\ kf_init_logs' = kf_init_logs + 1

\* faulty variant: the velocity is seeded with the price too
InitializeKalman_PriceTwice(price) ==
    /\ x' = <<price, price>>
    /\ P' = MatScale(Eye2, initial_cov)
    /\ initialized' = TRUE
    /\ kf_init_logs' = kf_init_logs + 1

\* _initialize_kalman(price)
InitializeKalman(price) ==
    /\ x' = <<price, Zero>>
    /\ P' = MatScale(Eye2, initial_cov)
    /\ initialized' = TRUE
    /\ kf_init_logs' = kf_init_logs + 1

\* faulty variant: only the volatility is tested
IsMissing_VolOnly(vol, price) == IsNaN(vol)

\* line 76: the test for a bar without an estimate
IsMissing(vol, price) == IsNaN(vol) \/ IsNaN(price)

\* lines 77-78: NaN on every line
PushNaNs == [ln \in LineNames |-> NaN]

\* faulty variant: Q is adapted before the predict step, which then adds
\* the Q of the current volatility
QFromVol(v) ==
    MatScale(Eye2, FMul(delta, FAdd(One, FMul(Q_scale_factor, FMul(v, v)))))
PredictP_NewQ(Pm, Qm) ==
    MatAdd(MatMul(MatMul(F, Pm), Transpose(F)),
           QFromVol(IF FGt(VolFloor, volatility') THEN VolFloor ELSE volatility'))

\* Predict
PredictX(xv) == MatVec(F, xv)
PredictP(Pm, Qm) == MatAdd(MatMul(MatMul(F, Pm), Transpose(F)), Qm)

\* faulty variant: no floor under the volatility
ClampVol_NoFloor(vol) == vol
\* faulty variant: q grows with the volatility, not with its square
AdaptQvar_Linear(v) == FMul(delta, FAdd(One, FMul(Q_scale_factor, v)))

\* faulty variant: R falls as the volatility rises
AdaptR_Minus(v) == FMul(R_base, FSub(One, FMul(R_scale, v)))

\* Adapt Q & R
ClampVol(vol) == IF FGt(VolFloor, vol) THEN VolFloor ELSE vol    \* max(vol, 1e-8)
AdaptR(v) == FMul(R_base, FAdd(One, FMul(R_scale, v)))
AdaptQvar(v) == FMul(delta, FAdd(One, FMul(Q_scale_factor, FMul(v, v))))
Diag(a, b) == <<<<a, Zero>>, <<Zero, b>>>>

\* faulty variant: the innovation is taken against the level before predict
Innovation_Stale(price, xp) == FSub(price, x[1])

\* faulty variant: the factors of the covariance update are swapped
UpdateP_Swapped(Pp, K) == MatMul(Pp, MatSub(I, MatMul(K, H)))

\* faulty variant: R is subtracted from the predicted variance
InnovationCov_Minus(Pp, Rn) ==
    FSub(MatMul(MatMul(H, Pp), Transpose(H))[1][1], Rn)

\* Update
Innovation(price, xp) == FSub(price, MatVec(H, xp)[1])
InnovationCov(Pp, Rn) == FAdd(MatMul(MatMul(H, Pp), Transpose(H))[1][1], Rn)
Gain(Pp, S) == MatDiv(MatMul(Pp, Transpose(H)), S)
\* faulty variant: the gain corrects the level only
UpdateX_LevelOnly(xp, K, y) == <<FAdd(xp[1], FMul(K[1][1], y)), xp[2]>>
\* faulty variant: the correction is subtracted
UpdateX_Minus(xp, K, y) == <<FSub(xp[1], FMul(K[1][1], y)), FSub(xp[2], FMul(K[2][1], y))>>
UpdateX(xp, K, y) == <<FAdd(xp[1], FMul(K[1][1], y)), FAdd(xp[2], FMul(K[2][1], y))>>
UpdateP(Pp, K) == MatMul(MatSub(I, MatMul(K, H)), Pp)

\* faulty variant: a reversal only closes, it opens no opposite position
Trade_CloseOnly(pos, vel) ==
    IF pos = 0
    THEN (IF FGt(vel, Zero) THEN <<"buy">>
          ELSE IF FLt(vel, Zero) THEN <<"sell">>
          ELSE <<>>)
    ELSE IF pos > 0 /\ FLt(vel, Zero) THEN <<"close">>
    ELSE IF pos < 0 /\ FGt(vel, Zero) THEN <<"close">>
    ELSE <<>>

\* the signal read off the velocity: 1 (vel > 0), -1 (vel < 0), else 0
SignOf(vel) == IF FGt(vel, Zero) THEN 1 ELSE IF FLt(vel, Zero) THEN -1 ELSE 0

\* Trading: the orders submitted for velocity vel while holding pos
Trade(pos, vel) ==
    IF pos = 0
    THEN (IF FGt(vel, Zero) THEN <<"buy">>
          ELSE IF FLt(vel, Zero) THEN <<"sell">>
          ELSE <<>>)
    ELSE IF pos > 0 /\ FLt(vel, Zero) THEN <<"close", "sell">>
    ELSE IF pos < 0 /\ FGt(vel, Zero) THEN <<"close", "buy">>
    ELSE <<>>

(***************************************************************************)
(* One bar: the feed delivers (price, vol), the broker settles the orders  *)
(* of the bar before, and next() runs.  self.position is then the settled  *)
(* position.                                                               *)
(***************************************************************************)
NewBar(price, vol) ==
    /\ barlen < FeedEnd
    /\ \E i \in DOMAIN FeedClose : price = FeedClose[i]
    /\ \E j \in DOMAIN FeedVolatility(barlen + 1) : vol = FeedVolatility(barlen + 1)[j]
    /\ barlen' = barlen + 1
    /\ close' = price
    /\ volatility' = vol
    /\ position' = BrokerFill(position, orders)
    /\ UNCHANGED <<vol_period, scenario, noise_in, noise_out, roll, strat, broker>>

\* lines 69-72: not initialised; initialise if possible, return
NextWait(price, vol) ==
    /\ NewBar(price, vol)
    /\ ~initialized
    /\ IF CanInitialize(barlen', vol)
       THEN InitializeKalman(price)
       ELSE UNCHANGED <<x, P, initialized, kf_init_logs>>
    /\ lines' = BlankLines
    /\ orders' = <<>>
    /\ path' = "wait"
    /\ UNCHANGED <<Q, R, cycles, last_S, flips>>

\* lines 74-79: initialised, vol or price is NaN; NaN on the lines, return
NextNaN(price, vol) ==
    /\ NewBar(price, vol)
    /\ initialized
    /\ IsMissing(vol, price)
    /\ lines' = PushNaNs
    /\ orders' = <<>>
    /\ path' = "nan"
    /\ UNCHANGED <<x, P, Q, R, initialized, kf_init_logs, cycles, last_S, flips>>

\* lines 81-119: one filter cycle, the lines, the orders.  Each intermediate
\* value of the code is bound once (\E over a singleton) and then used.
NextCycle(price, vol) ==
    /\ NewBar(price, vol)
    /\ initialized
    /\ ~IsMissing(vol, price)
    /\ \E xp \in {PredictX(x)}, Pp \in {PredictP(P, Q)}, v \in {ClampVol(vol)} :
       \E Rn \in {AdaptR(v)}, qvar \in {AdaptQvar(v)} :
       \E y \in {Innovation(price, xp)}, S \in {InnovationCov(Pp, Rn)} :
       \E K \in {Gain(Pp, S)} :
           /\ R' = Rn
           /\ Q' = Diag(qvar, qvar)
           /\ x' = UpdateX(xp, K, y)
           /\ P' = UpdateP(Pp, K)
           /\ last_S' = S
    /\ lines' = [kf_price |-> x'[1], kf_velocity |-> x'[2],
                 adaptive_R |-> R', adaptive_Q0 |-> Q'[1][1],
                 adaptive_Q1 |-> Q'[2][2]]
    /\ orders' = Trade(position', x'[2])
    /\ path' = "cycle"
    /\ cycles' = cycles + 1
    /\ flips' = IF SignOf(x'[2]) = SignOf(x[2]) THEN flips ELSE flips + 1
    /\ UNCHANGED <<initialized, kf_init_logs>>

Next ==
    \E i \in DOMAIN FeedClose, j \in DOMAIN (Vols \o <<NaN>>) :
        \/ NextWait(FeedClose[i], (Vols \o <<NaN>>)[j])
        \/ NextNaN(FeedClose[i], (Vols \o <<NaN>>)[j])
        \/ NextCycle(FeedClose[i], (Vols \o <<NaN>>)[j])

Spec == Init /\ [][Next]_vars

(***************************************************************************)
(* Fixed price series with the default window of 20: a constant price, a   *)
(* step from 100 to 110 after bar 21, a trend 30 bars up and 30 bars down. *)
(* The volatility of a series is one value from the window's first full    *)
(* bar on.  On such a feed a bar is never missing.                         *)
(***************************************************************************)
ScenarioVols == <<Zero, Lit(4, -2)>>
Scenarios ==
    {[kind |-> k, slope |-> 0, vol |-> ScenarioVols[i]] :
        k \in {"constant", "step"}, i \in DOMAIN ScenarioVols}
    \cup {[kind |-> "trend", slope |-> sl, vol |-> ScenarioVols[i]] :
        sl \in {5, 10, 20}, i \in DOMAIN ScenarioVols}

InitScenario ==
    /\ vol_period = DefaultVolPeriod
    /\ InitState
    /\ KalmanOnly
    /\ scenario \in Scenarios
    /\ noise_in = <<NaN, NaN>>
    /\ noise_out = <<>>

NextScenario ==
    \E i \in DOMAIN FeedClose, j \in DOMAIN FeedVolatility(barlen + 1) :
        \/ NextWait(FeedClose[i], FeedVolatility(barlen + 1)[j])
        \/ NextCycle(FeedClose[i], FeedVolatility(barlen + 1)[j])

SpecScenario == InitScenario /\ [][NextScenario]_vars

(***************************************************************************)
(* Construction with any vol_period.  params is a plain dict of defaults   *)
(* that the caller may override and __init__ (lines 33-57) reads without   *)
(* a test, so a strategy is constructed for a negative vol_period as for   *)
(* any other; `len(self) > vol_period` (line 70) then holds from the first *)
(* bar on.                                                                 *)
(***************************************************************************)
ConfigVolPeriods == {-1, ShortVolPeriod}

InitConfig ==
    /\ InitState
    /\ KalmanOnly
    /\ scenario = NoScenario
    /\ vol_period \in ConfigVolPeriods
    /\ noise_in = <<NaN, NaN>>
    /\ noise_out = <<>>

SpecConfig == InitConfig /\ [][Next]_vars

(***************************************************************************)
(* The Adapt step of next() (lines 85-89) as a function of the volatility  *)
(* alone: the same configuration, two volatilities, the R and the qvar     *)
(* each of them yields.                                                     *)
(***************************************************************************)
NoiseVols == <<Lit(-1, 0), Zero, Lit(1, -9), Lit(5, -9), Lit(1, -8), Lit(5, -2),
               Lit(1, -1), Lit(2, -1), Lit(5, -1), Lit(1, 0), Lit(2, 0)>>

InitNoise ==
    /\ InitStrategy
    /\ \E i, j \in DOMAIN NoiseVols : noise_in = <<NoiseVols[i], NoiseVols[j]>>
    /\ noise_out = <<>>

AdaptNoise(vol) ==
    [R |-> AdaptR(ClampVol(vol)), q |-> AdaptQvar(ClampVol(vol))]

NextNoise ==
    /\ noise_out = <<>>
    /\ noise_out' = <<AdaptNoise(noise_in[1]), AdaptNoise(noise_in[2])>>
    /\ UNCHANGED <<vol_period, barlen, close, volatility, initialized, x, P, Q, R,
                   lines, position, orders, path, kf_init_logs, cycles, last_S,
                   flips, scenario, noise_in, roll, strat, broker>>

SpecNoise == InitNoise /\ [][NextNoise]_vars


(***************************************************************************)
(* Shorthands of the properties                                            *)
(***************************************************************************)
\* the latest next() produced no estimate and no order
NotReadyResult == lines = [ln \in LineNames |-> NaN] /\ orders = <<>>
\* the latest next() ran a filter cycle and wrote its estimate to the lines
ReadyResult == path = "cycle" /\ lines.kf_price = x[1] /\ lines.kf_velocity = x[2]
\* this step is one call of next()
Call == barlen' = barlen + 1

C2_InitOnce ==
    [][ /\ initialized => initialized' /\ kf_init_logs' = kf_init_logs
        /\ initialized <=> kf_init_logs = 1
        /\ initialized' <=> kf_init_logs' = 1
        /\ (~initialized /\ Call) => (initialized' <=> ~IsNaN(volatility'))
        /\ kf_init_logs' # kf_init_logs =>
              ~initialized /\ kf_init_logs' = kf_init_logs + 1
      ]_vars

\* READY, three calls after the one that initialised
C2_Witness ==
    /\ initialized
    /\ kf_init_logs = 1
    /\ barlen = vol_period + 4
    /\ path # "wait"


C5_OrderOfOperations ==
    [][Call =>
        /\ cycles = 0 => Q = <<<<delta, Zero>>, <<Zero, delta>>>> /\ R = R_base
        /\ path' # "cycle" => Q' = Q /\ R' = R
        /\ path' = "cycle" =>
             \E v \in {IF FLe(volatility', VolFloor) THEN VolFloor ELSE volatility'} :
             \E Rnew \in {FMul(R_base, FAdd(One, FMul(R_scale, v)))} :
             \E qnew \in {FMul(delta, FAdd(One, FMul(Q_scale_factor, FMul(v, v))))} :
             \E Pold \in {MatAdd(MatMul(MatMul(F, P), Transpose(F)), Q)} :
             \E S \in {FAdd(Pold[1][1], Rnew)} :
             \E K \in {<<<<FDiv(Pold[1][1], S)>>, <<FDiv(Pold[2][1], S)>>>>} :
                 /\ P' = MatMul(MatSub(I, MatMul(K, H)), Pold)
                 /\ R' = Rnew
                 /\ Q' = <<<<qnew, Zero>>, <<Zero, qnew>>>>
      ]_vars

\* a third cycle has run on a Q and an R that earlier cycles left, both
\* different from the construction-time values
C5_Witness ==
    /\ path = "cycle"
    /\ cycles = 3
    /\ Q[1][1] # delta
    /\ R # R_base
    /\ IsFinite(P[1][1])

C7_NoiseFormulas ==
    /\ Q[1][2] = Zero /\ Q[2][1] = Zero /\ Q[1][1] = Q[2][2]
    /\ path = "cycle" =>
         LET v == IF FLe(volatility, VolFloor) THEN VolFloor ELSE volatility
             q == FMul(delta, FAdd(One, FMul(Q_scale_factor, FMul(v, v))))
         IN  /\ R = FMul(R_base, FAdd(One, FMul(R_scale, v)))
             /\ Q = <<<<q, Zero>>, <<Zero, q>>>>
             /\ lines.adaptive_R = R
             /\ lines.adaptive_Q0 = q
             /\ lines.adaptive_Q1 = q

\* a cycle on a volatility above the floor that moved both R and Q
C7_Witness ==
    /\ path = "cycle"
    /\ FGt(volatility, VolFloor)
    /\ Q[1][1] # delta
    /\ R # R_base
    /\ lines.adaptive_Q1 = Q[2][2]

(***************************************************************************)
(* C8  In every reachable state both diagonal entries of Q and R are       *)
(* strictly positive, whatever volatilities (zero, negative, positive)     *)
(* the calls were given.                                                   *)
(***************************************************************************)
C8_NoisePositive ==
    /\ FGt(Q[1][1], Zero)
    /\ FGt(Q[2][2], Zero)
    /\ FGt(R, Zero)

\* a cycle has just run on a negative volatility
C8_Witness ==
    /\ path = "cycle"
    /\ FLt(volatility, Zero)
    /\ FGt(R, Zero)
    /\ FGt(Q[1][1], Zero)

(***************************************************************************)
(* Exact comparisons on stored numbers, for the properties of P.           *)
(***************************************************************************)
\* p * 10^ep >= q * 10^eq for products p, q > 0 of two significands each
ScaledGe(p, ep, q, eq) ==
    IF ep - eq >= 2 THEN TRUE
    ELSE IF eq - ep >= 2 THEN FALSE
    ELSE IF ep >= eq THEN p * Pow10(ep - eq) >= q
    ELSE p >= q * Pow10(eq - ep)

\* a * b >= c * d, exactly, for finite a, b, c, d
ProductGe(a, b, c, d) ==
    LET p  == a.m * b.m
        q  == c.m * d.m
        ep == a.e + b.e
        eq == c.e + d.e
    IN  IF q <= 0 /\ p >= 0 THEN TRUE
        ELSE IF p <= 0 /\ q >= 0 THEN p = 0 /\ q = 0
        ELSE IF p > 0 THEN ScaledGe(p, ep, q, eq)
        ELSE ScaledGe(-q, eq, -p, ep)

\* non-negative diagonal and non-negative determinant
PositiveSemiDefinite(A) ==
    /\ \A i, j \in 1..2 : IsFinite(A[i][j])
    /\ A[1][1].m >= 0
    /\ A[2][2].m >= 0
    /\ ProductGe(A[1][1], A[2][2], A[1][2], A[2][1])

\* half a unit in the last place of 1: the largest relative error of one rounding
UnitRoundoff == Round(1, 5, -FloatDigits, FALSE)

\* |a - b| <= n * UnitRoundoff * max(|a|, |b|)
WithinRoundoffs(a, b, n) ==
    \E big \in {IF FGt(FAbs(a), FAbs(b)) THEN FAbs(a) ELSE FAbs(b)} :
        FLe(FAbs(FSub(a, b)), FMul(FMul(Lit(n, 0), UnitRoundoff), big))

C10_Monotone_Claimed ==
    (noise_out # <<>> /\ FLt(noise_in[1], noise_in[2])) =>
        /\ FLt(noise_out[1].R, noise_out[2].R)
        /\ FLt(noise_out[1].q, noise_out[2].q)

(***************************************************************************)
(* C10 (amended)  With everything else fixed, of two volatilities          *)
(* vol1 < vol2 the larger yields an R and a Q[0][0] that are not smaller;  *)
(* they are equal whenever both volatilities are at or below the floor     *)
(* 1e-8 (and whenever rounding absorbs the difference), and strictly       *)
(* larger only when that is not so.                                        *)
(***************************************************************************)
C10_Monotone ==
    (noise_out # <<>> /\ FLt(noise_in[1], noise_in[2])) =>
        /\ FLe(noise_out[1].R, noise_out[2].R)
        /\ FLe(noise_out[1].q, noise_out[2].q)
        /\ FLe(noise_in[2], VolFloor) => noise_out[1] = noise_out[2]

\* two volatilities above the floor, told apart by both R and Q[0][0]
C10_Witness ==
    /\ noise_out # <<>>
    /\ FLt(VolFloor, noise_in[1])
    /\ FLt(noise_in[1], noise_in[2])
    /\ FLt(noise_out[1].R, noise_out[2].R)
    /\ FLt(noise_out[1].q, noise_out[2].q)

(***************************************************************************)
(* C11  A ready cycle never fails: a zero or negative volatility is        *)
(* replaced by 1e-8 (R is then R_base * (1 + R_scale * 1e-8)), and the     *)
(* innovation covariance S by which the gain is divided is a finite        *)
(* number strictly above zero in every cycle, so that the gain and the new *)
(* P are finite numbers.                                                   *)
(***************************************************************************)
C11_CycleNeverFails ==
    /\ path = "cycle" =>
          /\ IsFinite(last_S)
          /\ FGt(last_S, Zero)
          /\ \A i, j \in 1..2 : IsFinite(P[i][j])
          /\ FLe(volatility, Zero) =>
                R = FMul(R_base, FAdd(One, FMul(R_scale, Lit(1, -8))))
    /\ cycles = 0 => last_S = NaN

\* a cycle on volatility zero has divided by a positive S
C11_Witness ==
    /\ path = "cycle"
    /\ volatility = Zero
    /\ FGt(last_S, Zero)
    /\ cycles >= 2

(***************************************************************************)
(* C12  Trading rule after each ready cycle: flat and velocity > 0: buy;   *)
(* flat and velocity < 0: sell; long and velocity < 0: close, then sell;   *)
(* short and velocity > 0: close, then buy; in every other case (velocity  *)
(* zero, NaN, or of the sign of the position held) no order; a call that   *)
(* runs no cycle submits no order.                                         *)
(***************************************************************************)
C12_TradingRule ==
    /\ path # "cycle" => orders = <<>>
    /\ path = "cycle" =>
          /\ (position = 0 /\ FGt(x[2], Zero)) => orders = <<"buy">>
          /\ (position = 0 /\ FLt(x[2], Zero)) => orders = <<"sell">>
          /\ (position = 1 /\ FLt(x[2], Zero)) => orders = <<"close", "sell">>
          /\ (position = -1 /\ FGt(x[2], Zero)) => orders = <<"close", "buy">>
          /\ (position = 1 /\ ~FLt(x[2], Zero)) => orders = <<>>
          /\ (position = -1 /\ ~FGt(x[2], Zero)) => orders = <<>>
          /\ (~FGt(x[2], Zero) /\ ~FLt(x[2], Zero)) => orders = <<>>
    /\ position \in {-1, 0, 1}

\* a long position is reversed: the velocity has turned negative
C12_Witness ==
    /\ path = "cycle"
    /\ position = 1
    /\ FLt(x[2], Zero)
    /\ orders = <<"close", "sell">>

(***************************************************************************)
(* C14  An invalid configuration (a negative vol_period) is rejected at    *)
(* construction: no next() call is ever processed by a strategy whose      *)
(* vol_period is negative.                                                 *)
(***************************************************************************)
C14_InvalidConfigRejected ==
    vol_period < 0 => barlen = 0 /\ ~initialized

(***************************************************************************)
(* C15 to C17: the filter on the fixed price series (SpecScenario)         *)
(***************************************************************************)
\* |a - b| <= tol
Within(a, b, tol) == FLe(FAbs(FSub(a, b)), tol)

\* C15: on the constant price 100.0 with volatility 0 from the first full
\* window on, after the call on bar 25 the level is within 1e-3 of 100.0 and
\* the velocity within 1e-3 of 0.0 (and so it is on every ready bar before).
C15_ConstantPrice ==
    (scenario.kind = "constant" /\ scenario.vol = Zero /\ path = "cycle") =>
        /\ Within(x[1], Lit(100, 0), Lit(1, -3))
        /\ Within(x[2], Zero, Lit(1, -3))
        /\ lines.kf_price = x[1]
        /\ lines.kf_velocity = x[2]

C15_Witness ==
    /\ scenario.kind = "constant" /\ scenario.vol = Zero
    /\ barlen = 25 /\ path = "cycle" /\ cycles = 4
    /\ x[1] = Lit(100, 0)

\* C16: on the step series (100 up to bar 21, where the filter initialises
\* with level 100 and velocity 0, then 110 up to bar 40) the velocity is
\* strictly positive after every call from bar 22 on, so within a few bars of
\* the jump; the level has left 100 upwards, and after bar 40 it is closer
\* to 110 than to 100.
C16_StepInput ==
    scenario.kind = "step" =>
        /\ (barlen = 21 /\ path = "wait") =>
              initialized /\ x = <<Lit(100, 0), Zero>>
        /\ (barlen >= 22 /\ path = "cycle") =>
              /\ FGt(x[2], Zero)
              /\ FGt(x[1], Lit(100, 0))
        /\ barlen = 40 =>
              FLt(FAbs(FSub(x[1], Lit(110, 0))), FAbs(FSub(x[1], Lit(100, 0))))

C16_Witness ==
    /\ scenario.kind = "step" /\ barlen = 40 /\ path = "cycle"
    /\ FGt(x[2], Zero)
    /\ Within(x[1], Lit(110, 0), Lit(5, -1))

\* C17: on a series that rises for 30 bars and falls for 30 bars the velocity
\* is not negative after any filter cycle of the first 30 bars, it is
\* negative after the last bar, and over the whole series its sign changes
\* at most 4 times.
C17_SignFlip ==
    scenario.kind = "trend" =>
        /\ (barlen <= 30 /\ path = "cycle") => SignOf(x[2]) >= 0 /\ ~IsNaN(x[2])
        /\ barlen = 60 => SignOf(x[2]) = -1
        /\ flips <= 4

C17_Witness ==
    /\ scenario.kind = "trend" /\ barlen = 60 /\ path = "cycle"
    /\ SignOf(x[2]) = -1
    /\ flips = 2

(***************************************************************************)
(* run_rolling_backtest (adaptive_kalman_filter/main.py and                *)
(* volume_spread_analysis/main.py).  A date is <<month, day>>, the months  *)
(* counted from January 2018; all dates are midnights.  One action is one  *)
(* pass of the `while True` loop; whether the download brought enough bars *)
(* and what the window returned are inputs.                                *)
(***************************************************************************)
MaxWindows == 5

DateLt(a, b) == a[1] < b[1] \/ (a[1] = b[1] /\ a[2] < b[2])
DateGt(a, b) == DateLt(b, a)
DateGe(a, b) == ~DateLt(a, b)

\* days of the month m
DaysIn(m) ==
    IF m % 12 = 1 THEN (IF (2018 + m \div 12) % 4 = 0 THEN 29 ELSE 28)
    ELSE IF m % 12 \in {3, 5, 8, 10} THEN 30
    ELSE 31

\* date + rd.relativedelta(months=w): the day is cut to the target month
AddMonths(date, w) ==
    <<date[1] + w,
      IF date[2] > DaysIn(date[1] + w) THEN DaysIn(date[1] + w) ELSE date[2]>>

RollStarts == {<<0, 1>>, <<23, 31>>}
RollEnds == {<<0, 1>>, <<3, 1>>, <<26, 15>>, <<27, 30>>}
WindowMonths == {0, 1, 3}
RollReturns == {-2, 3}
RollImpls == {"akf", "vsa"}

\* the locals after `current_start = start_dt`
RollCall(impl, start, end, w) ==
    [impl |-> impl, start_dt |-> start, end_dt |-> end, window_months |-> w,
     current_start |-> start, all_results |-> <<>>, windows |-> <<>>,
     returned |-> FALSE]

InitRolling ==
    /\ vol_period = DefaultVolPeriod
    /\ InitState
    /\ scenario = NoScenario
    /\ noise_in = <<NaN, NaN>>
    /\ noise_out = <<>>
    /\ strat = NoStrat
    /\ broker = NoBroker
    /\ roll \in {RollCall(impl, start, end, w) :
                    impl \in RollImpls, start \in RollStarts,
                    end \in RollEnds, w \in WindowMonths}

\* adaptive_kalman_filter: current_end, and the next current_start
AkfWindowEnd(cs, w) == AddMonths(cs, w)
AkfNextStart(cs, w) == AddMonths(cs, w)

\* faulty variant: the window is not cut at the overall end
VsaWindowEnd_NoClamp(cs, w, end) == AddMonths(cs, w)

\* volume_spread_analysis: current_end, cut at the overall end
VsaWindowEnd(cs, w, end) ==
    IF DateGt(AddMonths(cs, w), end) THEN end ELSE AddMonths(cs, w)

\* the row appended for a processed window
ResultRow(cs, ce, ret) == [start |-> cs, end |-> ce, return_pct |-> ret]
\* (not in the code) the window a pass of the loop announced
Visited(cs, ce, processed) == [start |-> cs, end |-> ce, processed |-> processed]

Looping(impl) ==
    /\ roll.impl = impl
    /\ ~roll.returned
    /\ Len(roll.windows) < MaxWindows
    /\ UNCHANGED <<kalmanVars, strat, broker>>

\* adaptive_kalman_filter, lines 20-22: the window would end after end_dt
AkfBreak ==
    /\ Looping("akf")
    /\ DateGt(AkfWindowEnd(roll.current_start, roll.window_months), roll.end_dt)
    /\ roll' = [roll EXCEPT !.returned = TRUE]

\* lines 27-31: too little data, the window is skipped
AkfSkip ==
    /\ Looping("akf")
    /\ ~DateGt(AkfWindowEnd(roll.current_start, roll.window_months), roll.end_dt)
    /\ roll' = [roll EXCEPT
          !.windows = Append(@, Visited(roll.current_start,
                AkfWindowEnd(roll.current_start, roll.window_months), FALSE)),
          !.current_start = AkfNextStart(roll.current_start, roll.window_months)]

\* lines 33-60: the window is run and its row stored
AkfRun(ret) ==
    /\ Looping("akf")
    /\ ~DateGt(AkfWindowEnd(roll.current_start, roll.window_months), roll.end_dt)
    /\ roll' = [roll EXCEPT
          !.windows = Append(@, Visited(roll.current_start,
                AkfWindowEnd(roll.current_start, roll.window_months), TRUE)),
          !.all_results = Append(@, ResultRow(roll.current_start,
                AkfWindowEnd(roll.current_start, roll.window_months), ret)),
          !.current_start = AkfNextStart(roll.current_start, roll.window_months)]

\* volume_spread_analysis, lines 16-19: the `break` at the head of the loop
VsaLeaves(cs, w, end) ==
    DateGt(AddMonths(cs, w), end) /\ DateGe(cs, VsaWindowEnd(cs, w, end))

VsaBreak ==
    /\ Looping("vsa")
    /\ VsaLeaves(roll.current_start, roll.window_months, roll.end_dt)
    /\ roll' = [roll EXCEPT !.returned = TRUE]

\* lines 39-44 and 69-71: stop after the window that ends at end_dt, else
\* go on from current_end
VsaAdvance(r, ce) ==
    IF ce = r.end_dt THEN [r EXCEPT !.returned = TRUE]
    ELSE [r EXCEPT !.current_start = ce]

\* lines 25-44: too little data, the window is skipped
VsaSkip ==
    /\ Looping("vsa")
    /\ ~VsaLeaves(roll.current_start, roll.window_months, roll.end_dt)
    /\ \E ce \in {VsaWindowEnd(roll.current_start, roll.window_months, roll.end_dt)} :
          roll' = VsaAdvance(
              [roll EXCEPT !.windows = Append(@, Visited(roll.current_start, ce, FALSE))],
              ce)

\* lines 46-71: the window is run and its row stored
VsaRun(ret) ==
    /\ Looping("vsa")
    /\ ~VsaLeaves(roll.current_start, roll.window_months, roll.end_dt)
    /\ \E ce \in {VsaWindowEnd(roll.current_start, roll.window_months, roll.end_dt)} :
          roll' = VsaAdvance(
              [roll EXCEPT
                  !.windows = Append(@, Visited(roll.current_start, ce, TRUE)),
                  !.all_results = Append(@, ResultRow(roll.current_start, ce, ret))],
              ce)

NextRolling ==
    \/ AkfBreak
    \/ AkfSkip
    \/ \E ret \in RollReturns : AkfRun(ret)
    \/ VsaBreak
    \/ VsaSkip
    \/ \E ret \in RollReturns : VsaRun(ret)

SpecRolling == InitRolling /\ [][NextRolling]_vars

\* the (start, end) of the processed windows, in order
RECURSIVE ProcessedWindows(_)
ProcessedWindows(ws) ==
    IF ws = <<>> THEN <<>>
    ELSE IF Head(ws).processed
         THEN <<<<Head(ws).start, Head(ws).end>>>> \o ProcessedWindows(Tail(ws))
         ELSE ProcessedWindows(Tail(ws))

\* C18: the windows run_rolling_backtest visits: the first starts at `start`,
\* every later one starts exactly where the one before it ended, also after a
\* window skipped for lack of data; none ends after `end`; the result rows
\* are the processed windows, one row each and in order; and with
\* window_months >= 1 every window ends after it starts.
C18_RollingWindows ==
    /\ roll.windows # <<>> => roll.windows[1].start = roll.start_dt
    /\ \A k \in 1..(Len(roll.windows) - 1) :
          roll.windows[k + 1].start = roll.windows[k].end
    /\ \A k \in DOMAIN roll.windows :
          /\ ~DateGt(roll.windows[k].end, roll.end_dt)
          /\ roll.window_months >= 1 =>
                DateLt(roll.windows[k].start, roll.windows[k].end)
    /\ [i \in DOMAIN roll.all_results |->
            <<roll.all_results[i].start, roll.all_results[i].end>>]
          = ProcessedWindows(roll.windows)
    /\ ~roll.returned => roll.windows = <<>>
          \/ roll.current_start = roll.windows[Len(roll.windows)].end

C18_Witness ==
    /\ roll.returned
    /\ Len(roll.windows) >= 3
    /\ ~roll.windows[2].processed
    /\ roll.windows[3].processed
    /\ roll.windows[3].start = roll.windows[2].end
    /\ roll.windows[1].start[2] # roll.windows[3].start[2]

(***************************************************************************)
(* The strategies that track self.order or a trailing stop, each run by    *)
(* the backtest engine as their main() sets it up: one data feed, the      *)
(* default broker, PercentSizer.  Money is counted in hundredths.  On      *)
(* every bar the broker works on the open orders (a market order fills at  *)
(* the open, or fails for lack of cash when it opens a position; a stop    *)
(* order fills once the bar reaches its price), then the strategy is told  *)
(* of its orders (notify_order) and closed trades (notify_trade), then     *)
(* next() runs.  What the indicators say on a bar is an input.             *)
(***************************************************************************)
MaxTradeBars == 7

\* Python's None, for a price or an order
None == -1

StrategyNames == {"poly", "vwap", "vsa", "vsapr", "ou", "butter"}
TradePrices == {9000, 10000, 11000}
TradeAtrs == {100, 400}
\* the bars of the feed: low <= open, close <= high
TradeBars ==
    {bar \in [open : TradePrices, high : TradePrices,
              low : TradePrices, close : TradePrices] :
        /\ bar.low <= bar.open /\ bar.low <= bar.close
        /\ bar.high >= bar.open /\ bar.high >= bar.close}

\* OUMeanReversionStrategy.params.lookback
OuLookback == 60

\* the attributes after __init__
NewStrategy(name) ==
    [name |-> name,
     order |-> None,            \* self.order: the ref of the order, or None
     stop_order |-> None,       \* self.stop_order (VSA)
     trail |-> IF name \in {"vsa", "vsapr"} THEN 0 ELSE None,
                                \* trail_stop / trail_price / trail_stop_price
     stop_price |-> None,       \* self.stop_price (VWAP)
     entry_price |-> IF name \in {"vsa", "vsapr"} THEN 0 ELSE None,
     position_type |-> 0,       \* 1 long, -1 short, 0 for 0 / None
     last_signal |-> 0,         \* Butterworth
     last_signal_bar |-> 0,     \* VSA
     z_scores |-> 0,            \* OU: len(self.z_scores)
     lookback |-> IF name = "ou" THEN OuLookback ELSE None,
                                \* OU: params.lookback
     crashed |-> FALSE]         \* an exception left the strategy

\* the engine before the first bar
NewBroker ==
    [size |-> 0,                \* sign of self.position.size
     open |-> <<>>,             \* orders submitted and alive, oldest first
     queued |-> <<>>,           \* notifications made since the last delivery
     notes |-> <<>>,            \* notifications being delivered on this bar
     trade_closed |-> FALSE,    \* a closed trade is to be notified
     in_bar |-> FALSE,          \* the bar is delivered, next() has not run yet
     barno |-> 0,               \* bars delivered
     close |-> None,            \* self.data.close[0]
     atr |-> None,              \* self.atr[0]
     nextref |-> 1,             \* ref of the next order
     unreported |-> {},         \* market orders no final report was delivered of
     overlap |-> FALSE,         \* a market order was submitted while another was unreported
     pattern_bar |-> None,      \* the bar of the last order of the VSA pattern logic
     estimate |-> <<>>]         \* the eq_std estimate_ou_parameters returned last, if called

Note(o, status, price) ==
    [ref |-> o.ref, side |-> o.side, status |-> status, price |-> price]

\* self.buy() / self.sell(): the broker takes the order and queues `Submitted`
Submit(b, side, exectype, price) ==
    [b EXCEPT
        !.open = Append(@, [ref |-> b.nextref, side |-> side,
                            exectype |-> exectype, price |-> price,
                            accepted |-> FALSE]),
        !.queued = Append(@, [ref |-> b.nextref, side |-> side,
                              status |-> "Submitted", price |-> None]),
        !.nextref = @ + 1,
        !.unreported = IF exectype = "market" THEN @ \cup {b.nextref} ELSE @,
        !.overlap = @ \/ (exectype = "market" /\ b.unreported # {})]

\* is the order ref alive: order.alive()
Alive(b, ref) == \E i \in DOMAIN b.open : b.open[i].ref = ref

\* self.cancel(order): an alive order leaves the broker and `Canceled` is queued
Cancel(b, ref) ==
    IF ~Alive(b, ref) THEN b
    ELSE [b EXCEPT
            !.open = SelectSeq(@, LAMBDA o : o.ref # ref),
            !.queued = Append(@, [ref |-> ref, side |-> "none",
                                  status |-> "Canceled", price |-> None])]

\* the side of self.close(): sell a long, buy a short
CloseSide(b) == IF b.size > 0 THEN "sell" ELSE "buy"

\* the position after an order of this side has filled
Filled(size, side) == IF side = "buy" THEN size + 1 ELSE size - 1

\* does the bar reach the stop price, and where does the stop order fill
Triggered(o, bar) ==
    IF o.side = "sell" THEN bar.low <= o.price ELSE bar.high >= o.price
StopFill(o, bar) ==
    IF o.side = "sell"
    THEN (IF bar.open <= o.price THEN bar.open ELSE o.price)
    ELSE (IF bar.open >= o.price THEN bar.open ELSE o.price)

\* The broker on one order with the new bar: acceptance (or Margin for a
\* market order that opens a position, when `cash` is FALSE), then the fill.
ExecOne(b, o, bar, cash) ==
    IF ~o.accepted /\ o.exectype = "market" /\ b.size = 0 /\ ~cash
    THEN [b EXCEPT !.queued = Append(@, Note(o, "Margin", None))]
    ELSE IF o.exectype = "market" \/ Triggered(o, bar)
    THEN [b EXCEPT
            !.queued = (IF o.accepted THEN @ ELSE Append(@, Note(o, "Accepted", None)))
                       \o <<Note(o, "Completed",
                                 IF o.exectype = "market" THEN bar.open
                                 ELSE StopFill(o, bar))>>,
            !.size = Filled(@, o.side),
            !.trade_closed = @ \/ Filled(b.size, o.side) = 0]
    ELSE [b EXCEPT
            !.queued = IF o.accepted THEN @ ELSE Append(@, Note(o, "Accepted", None)),
            !.open = Append(@, [o EXCEPT !.accepted = TRUE])]

RECURSIVE ExecAll(_, _, _, _)
ExecAll(b, os, bar, cash) ==
    IF os = <<>> THEN b
    ELSE ExecAll(ExecOne(b, Head(os), bar, cash), Tail(os), bar, cash)

\* the engine delivers a bar: the broker works on the orders, then what it
\* has queued goes out to the strategy
BrokerBar(b, bar, atr, cash) ==
    [ExecAll([b EXCEPT !.open = <<>>], b.open, bar, cash) EXCEPT
        !.barno = @ + 1, !.close = bar.close, !.atr = atr, !.in_bar = TRUE]

Deliver(b) == [b EXCEPT !.notes = b.queued, !.queued = <<>>]

\* a handler's result: the attributes and the engine after it
Result(s, b) == [s |-> s, b |-> b]


(***************************************************************************)
(* PolynomialChannelBreakoutStrategy                                       *)
(***************************************************************************)
\* trail_atr_mult = 3.0 times the ATR
PolyStopDistance(atr) == 3 * atr

\* faulty variant: the stop follows the price both ways
PolyUpdateTrailingStop_NoGuard(s, current_price, atr) ==
    IF s.trail = None \/ s.position_type = 0 THEN s
    ELSE IF s.position_type = 1
    THEN [s EXCEPT !.trail = current_price - PolyStopDistance(atr)]
    ELSE [s EXCEPT !.trail = current_price + PolyStopDistance(atr)]

\* update_trailing_stop(current_price)
PolyUpdateTrailingStop(s, current_price, atr) ==
    IF s.trail = None \/ s.position_type = 0 THEN s
    ELSE IF s.position_type = 1
    THEN (IF current_price - PolyStopDistance(atr) > s.trail
          THEN [s EXCEPT !.trail = current_price - PolyStopDistance(atr)]
          ELSE s)
    ELSE (IF current_price + PolyStopDistance(atr) < s.trail
          THEN [s EXCEPT !.trail = current_price + PolyStopDistance(atr)]
          ELSE s)

\* faulty variant: the order reference is cleared on every notification
PolyNotifyOrder_ClearsAlways(s, b, n) == Result([s EXCEPT !.order = None], b)

\* notify_order(order)
PolyNotifyOrder(s, b, n) ==
    IF n.status \in {"Submitted", "Accepted"} THEN Result(s, b)
    ELSE IF n.status = "Completed" /\ n.side = "buy" /\ b.size > 0
    THEN Result([s EXCEPT !.position_type = 1, !.entry_price = n.price,
                          !.trail = n.price - PolyStopDistance(b.atr),
                          !.order = None], b)
    ELSE IF n.status = "Completed" /\ n.side = "sell" /\ b.size < 0
    THEN Result([s EXCEPT !.position_type = -1, !.entry_price = n.price,
                          !.trail = n.price + PolyStopDistance(b.atr),
                          !.order = None], b)
    ELSE IF n.status = "Completed" /\ n.side = "sell"
    THEN Result([s EXCEPT !.position_type = 0, !.trail = None,
                          !.entry_price = None, !.order = None], b)
    ELSE Result([s EXCEPT !.order = None], b)

\* notify_trade(trade) of a closed trade
PolyNotifyTrade(s) ==
    [s EXCEPT !.position_type = 0, !.trail = None, !.entry_price = None]

\* self.order = self.close()
SubmitClose(s, b) ==
    Result([s EXCEPT !.order = b.nextref], Submit(b, CloseSide(b), "market", None))
\* self.order = self.buy() / self.sell()
SubmitEntry(s, b, side) ==
    Result([s EXCEPT !.order = b.nextref], Submit(b, side, "market", None))

\* faulty variant: the regression exit is looked at only, the stop is not
PolyManage_NoStop(s, b, in) ==
    IF in.exit /\ s.position_type # 0 THEN SubmitClose(s, b) ELSE Result(s, b)

\* next(), part 2: the position is managed; s is the strategy after
\* update_trailing_stop
PolyManage(s, b, in) ==
    IF s.position_type = 1 /\ b.close <= s.trail THEN SubmitClose(s, b)
    ELSE IF s.position_type = -1 /\ b.close >= s.trail THEN SubmitClose(s, b)
    ELSE IF in.exit /\ s.position_type # 0 THEN SubmitClose(s, b)
    ELSE Result(s, b)

\* next(); in.ready: enough bars and no NaN indicator, in.signal: the channel
\* breakout (1 up, -1 down), in.exit: use_regression_exit and the price
\* crossed the regression line against the position
PolyNext(s, b, in) ==
    IF ~in.ready \/ s.order # None THEN Result(s, b)
    ELSE IF b.size # 0
    THEN PolyManage(PolyUpdateTrailingStop(s, b.close, b.atr), b, in)
    ELSE IF in.signal = 1 THEN SubmitEntry(s, b, "buy")
    ELSE IF in.signal = -1 THEN SubmitEntry(s, b, "sell")
    ELSE Result(s, b)

(***************************************************************************)
(* VWAPAnchoredBreakoutStrategy                                            *)
(***************************************************************************)
\* trailing_stop_atr_multiplier = 5.0, initial_stop_atr_multiplier = 1.
VwapTrailDistance(atr) == 5 * atr
VwapStopDistance(atr) == 1 * atr

\* update_trailing_stop()
VwapUpdateTrailingStop(s, b) ==
    IF b.size = 0 \/ s.trail = None THEN s
    ELSE IF s.position_type = 1
    THEN (IF b.close - VwapTrailDistance(b.atr) > s.trail
          THEN [s EXCEPT !.trail = b.close - VwapTrailDistance(b.atr)]
          ELSE s)
    ELSE IF s.position_type = -1
    THEN (IF b.close + VwapTrailDistance(b.atr) < s.trail
          THEN [s EXCEPT !.trail = b.close + VwapTrailDistance(b.atr)]
          ELSE s)
    ELSE s

\* check_exit_conditions(); reversion: the close is on the wrong side of the
\* session VWAP
VwapShouldExit(s, b, reversion) ==
    /\ b.size # 0
    /\ \/ s.stop_price # None /\ s.position_type = 1 /\ b.close <= s.stop_price
       \/ s.stop_price # None /\ s.position_type = -1 /\ b.close >= s.stop_price
       \/ s.trail # None /\ s.position_type = 1 /\ b.close <= s.trail
       \/ s.trail # None /\ s.position_type = -1 /\ b.close >= s.trail
       \/ s.position_type # 0 /\ reversion

\* notify_order(order)
VwapNotifyOrder(s, b, n) ==
    IF n.status \in {"Submitted", "Accepted"} THEN Result(s, b)
    ELSE Result([s EXCEPT !.order = None], b)

\* next(), the position is managed; s is the strategy after update_trailing_stop
VwapManage(s, b, in) ==
    IF VwapShouldExit(s, b, in.exit)
    THEN Result([s EXCEPT !.order = b.nextref, !.entry_price = None,
                          !.stop_price = None, !.trail = None,
                          !.position_type = 0],
                Submit(b, CloseSide(b), "market", None))
    ELSE Result(s, b)

\* next(); in.signal: the confirmed breakout (1 LONG, -1 SHORT)
VwapNext(s, b, in) ==
    IF s.order # None \/ ~in.ready THEN Result(s, b)
    ELSE IF b.size # 0 THEN VwapManage(VwapUpdateTrailingStop(s, b), b, in)
    ELSE IF in.signal = 1
    THEN Result([s EXCEPT !.stop_price = b.close - VwapStopDistance(b.atr),
                          !.trail = b.close - VwapTrailDistance(b.atr),
                          !.order = b.nextref, !.entry_price = b.close,
                          !.position_type = 1],
                Submit(b, "buy", "market", None))
    ELSE IF in.signal = -1
    THEN Result([s EXCEPT !.stop_price = b.close + VwapStopDistance(b.atr),
                          !.trail = b.close + VwapTrailDistance(b.atr),
                          !.order = b.nextref, !.entry_price = b.close,
                          !.position_type = -1],
                Submit(b, "sell", "market", None))
    ELSE Result(s, b)


(***************************************************************************)
(* VSAStrategy (vsa_strategy.py) and VSAPatternRecognition                 *)
(* (pattern_recognition.py); trail_stop_pct = 0.05                         *)
(***************************************************************************)
\* price * (1 - trail_stop_pct) and price * (1 + trail_stop_pct)
LongStopOf(price) == (price * 95) \div 100
ShortStopOf(price) == (price * 105) \div 100

\* len(self.data) on the current bar: the bars before the first one handled
\* here are the warm-up of trend_period = 30
DataLen(b) == 30 + b.barno

\* self.stop_order = self.sell / self.buy(exectype=bt.Order.Stop, price=...)
PlaceStop(s, b, side, price) ==
    Result([s EXCEPT !.trail = price, !.stop_order = b.nextref],
           Submit(b, side, "stop", price))

\* `if self.order and order.ref == self.order.ref: self.order = None`
ClearOrderOf(s, n) == IF s.order # None /\ n.ref = s.order THEN [s EXCEPT !.order = None] ELSE s

\* vsa_strategy.py, notify_order(order)
VsaNotifyOrder(s, b, n) ==
    IF n.status = "Completed"
    THEN IF n.side = "buy" /\ b.size > 0
         THEN \* a long position was opened
              Result(ClearOrderOf([s EXCEPT !.entry_price = n.price,
                                            !.trail = LongStopOf(n.price),
                                            !.stop_order = b.nextref], n),
                     Submit(b, "sell", "stop", LongStopOf(n.price)))
         ELSE IF n.side = "sell" /\ b.size < 0
         THEN Result(ClearOrderOf([s EXCEPT !.entry_price = n.price,
                                            !.trail = ShortStopOf(n.price),
                                            !.stop_order = b.nextref], n),
                     Submit(b, "buy", "stop", ShortStopOf(n.price)))
         ELSE IF s.stop_order # None /\ n.ref = s.stop_order
         THEN \* the stop order has filled
              Result([ClearOrderOf(s, n) EXCEPT !.stop_order = None,
                                                !.trail = 0, !.entry_price = 0], b)
         ELSE Result(ClearOrderOf(s, n), b)
    ELSE IF n.status \in {"Canceled", "Rejected", "Margin"}
    THEN IF s.stop_order # None /\ n.ref = s.stop_order
         THEN \* self.log(..., doprint=True): log() takes no doprint, TypeError
              Result([ClearOrderOf(s, n) EXCEPT !.crashed = TRUE], b)
         ELSE Result(ClearOrderOf(s, n), b)
    ELSE Result(s, b)

\* faulty variant: the new stop order is placed, the old one is left alive
VsaTrail_NoCancel(s, b) ==
    IF b.size > 0 /\ b.close > s.entry_price /\ s.trail > 0
          /\ LongStopOf(b.close) > s.trail
    THEN PlaceStop(s, b, "sell", LongStopOf(b.close))
    ELSE IF b.size < 0 /\ b.close < s.entry_price /\ s.trail > 0
          /\ ShortStopOf(b.close) < s.trail
    THEN PlaceStop(s, b, "buy", ShortStopOf(b.close))
    ELSE Result(s, b)

\* vsa_strategy.py, next(), lines 270-293: the trailing stop of a position
VsaTrail(s, b) ==
    IF b.size > 0 /\ b.close > s.entry_price /\ s.trail > 0
          /\ LongStopOf(b.close) > s.trail
    THEN PlaceStop(s, Cancel(b, s.stop_order), "sell", LongStopOf(b.close))
    ELSE IF b.size < 0 /\ b.close < s.entry_price /\ s.trail > 0
          /\ ShortStopOf(b.close) < s.trail
    THEN PlaceStop(s, Cancel(b, s.stop_order), "buy", ShortStopOf(b.close))
    ELSE Result(s, b)

\* lines 322-325 and pattern_recognition.py 191-197: the position is closed
\* on an opposite signal
VsaClose(s, b) ==
    Result([s EXCEPT !.order = Cancel(b, s.stop_order).nextref,
                     !.last_signal_bar = DataLen(b),
                     !.trail = 0, !.entry_price = 0],
           Submit(Cancel(b, s.stop_order), CloseSide(b), "market", None))

\* faulty variant: an entry leaves last_signal_bar as it was
VsaOpen_NoMark(s, b, side) ==
    Result([s EXCEPT !.order = b.nextref], Submit(b, side, "market", None))

VsaOpen(s, b, side) ==
    Result([s EXCEPT !.order = b.nextref, !.last_signal_bar = DataLen(b)],
           Submit(b, side, "market", None))

\* lines 295-351; rs is the result of the trailing stop part; in.signal: the
\* direction of a pattern strong enough (1 bullish, -1 bearish), in.strong:
\* strong enough to open a position
VsaTrade(rs, in) ==
    IF in.signal = 0 \/ DataLen(rs.b) - rs.s.last_signal_bar < 5 THEN rs
    ELSE IF rs.b.size > 0 /\ in.signal = -1 THEN VsaClose(rs.s, rs.b)
    ELSE IF rs.b.size < 0 /\ in.signal = 1 THEN VsaClose(rs.s, rs.b)
    ELSE IF rs.b.size = 0 /\ in.strong
    THEN VsaOpen(rs.s, rs.b, IF in.signal = 1 THEN "buy" ELSE "sell")
    ELSE rs

\* vsa_strategy.py, next()
VsaNext(s, b, in) ==
    IF s.order # None THEN Result(s, b)
    ELSE VsaTrade(VsaTrail(s, b), in)

\* pattern_recognition.py, notify_order(order)
VsaprStopSet(s, b, n) ==
    IF n.status = "Completed" /\ n.side = "buy" /\ b.size > 0
    THEN PlaceStop([s EXCEPT !.entry_price = n.price], b, "sell", LongStopOf(n.price))
    ELSE IF n.status = "Completed" /\ n.side = "sell" /\ b.size < 0
    THEN PlaceStop([s EXCEPT !.entry_price = n.price], b, "buy", ShortStopOf(n.price))
    ELSE Result(s, b)

VsaprClear(s, n) ==
    IF n.status \notin {"Completed", "Canceled", "Rejected"} THEN s
    ELSE IF s.stop_order # None /\ n.ref = s.stop_order
    THEN IF n.status = "Completed"
         THEN [ClearOrderOf(s, n) EXCEPT !.stop_order = None, !.trail = 0,
                                         !.entry_price = 0]
         ELSE [ClearOrderOf(s, n) EXCEPT !.stop_order = None]
    ELSE ClearOrderOf(s, n)

VsaprNotifyOrder(s, b, n) ==
    Result(VsaprClear(VsaprStopSet(s, b, n).s, n), VsaprStopSet(s, b, n).b)

\* pattern_recognition.py, next(), lines 126-160
VsaprTrail(s, b) ==
    IF b.size > 0 /\ s.trail > 0 /\ LongStopOf(b.close) > s.trail
    THEN PlaceStop(s, Cancel(b, s.stop_order), "sell", LongStopOf(b.close))
    ELSE IF b.size < 0 /\ s.trail > 0 /\ ShortStopOf(b.close) < s.trail
    THEN PlaceStop(s, Cancel(b, s.stop_order), "buy", ShortStopOf(b.close))
    ELSE Result(s, b)

\* pattern_recognition.py, next()
VsaprNext(s, b, in) ==
    IF s.order # None THEN Result(s, b)
    ELSE VsaTrade(VsaprTrail(s, b), in)

(***************************************************************************)
(* OUMeanReversionStrategy and ButterworthCrossoverStrategy                *)
(***************************************************************************)
\* notify_order(order)
OuNotifyOrder(s, b, n) ==
    IF n.status \in {"Submitted", "Accepted"} THEN Result(s, b)
    ELSE Result([s EXCEPT !.order = None], b)

\* next(), lines 130-159; s has the z-score of the bar recorded.  in.signal:
\* z beyond the entry threshold with the trend (1 long, -1 short); in.exit:
\* z back inside the exit threshold of the position held
OuTrade(s, b, in) ==
    IF s.order # None THEN Result(s, b)
    ELSE IF b.size = 0
    THEN IF in.signal = 1
         THEN Result([s EXCEPT !.order = b.nextref, !.position_type = 1],
                     Submit(b, "buy", "market", None))
         ELSE IF in.signal = -1
         THEN Result([s EXCEPT !.order = b.nextref, !.position_type = -1],
                     Submit(b, "sell", "market", None))
         ELSE Result(s, b)
    ELSE IF s.position_type = 1 /\ in.exit
    THEN Result([s EXCEPT !.order = b.nextref, !.position_type = 0],
                Submit(b, "sell", "market", None))
    ELSE IF s.position_type = -1 /\ in.exit
    THEN Result([s EXCEPT !.order = b.nextref, !.position_type = 0],
                Submit(b, "buy", "market", None))
    ELSE Result(s, b)

\* a None among the floats
FNone == [k |-> "none", m |-> 0, e |-> 0]

\* `return None, None, None, None`
NoEstimate == [mu |-> FNone, theta |-> FNone, sigma |-> FNone, eq_std |-> FNone]

\* len(log_prices) < 10
OuMinPoints == 10
\* theta > 1e-6
ThetaFloor == Lit(1, -6)

\* np.sqrt, on the values that reach it here
Sqrt(a) == IF a = Lit(4, 0) THEN Lit(2, 0) ELSE NaN

\* what stats.linregress and the residuals give: an exception; or a slope (-2
\* or 0), an intercept, and the standard deviation of the residuals (0 for a
\* perfect fit, or 0.04); or NaN throughout, for prices with a NaN.  mean:
\* np.mean(log_prices)
Regressions ==
    {[raises |-> r, slope |-> NaN, intercept |-> NaN, sigma |-> NaN, mean |-> NaN] :
        r \in BOOLEAN}
    \cup [raises : {FALSE}, slope : {Lit(-2, 0), Zero}, intercept : {Lit(92, -1)},
          sigma : {Zero, Lit(4, -2)}, mean : {Lit(46, -1)}]

\* estimate_ou_parameters(log_prices), n = len(log_prices)
EstimateOuParameters(n, reg) ==
    IF n < OuMinPoints THEN NoEstimate
    ELSE IF reg.raises THEN NoEstimate
    ELSE [mu |-> IF FGt(FNeg(reg.slope), ThetaFloor)
                 THEN FDiv(reg.intercept, FNeg(reg.slope)) ELSE reg.mean,
          theta |-> FNeg(reg.slope),
          sigma |-> reg.sigma,
          eq_std |-> IF FGt(FNeg(reg.slope), ThetaFloor)
                     THEN FDiv(reg.sigma, Sqrt(FMul(Lit(2, 0), FNeg(reg.slope))))
                     ELSE reg.sigma]

\* faulty variant: only a missing estimate is turned away
Unusable_NoneOnly(est) == est.mu = FNone \/ est.eq_std = FNone

\* `mu is None or eq_std is None or eq_std <= 0`
Unusable(est) == est.mu = FNone \/ est.eq_std = FNone \/ FLe(est.eq_std, Zero)

\* next(); in.ready: len(self.dataclose) >= lookback; the estimate is made on
\* the last `lookback` log prices
OuNext(s, b, in) ==
    IF ~in.ready THEN Result(s, b)
    ELSE IF Unusable(EstimateOuParameters(s.lookback, in.regression)) THEN Result(s, b)
    ELSE OuTrade([s EXCEPT !.z_scores = @ + 1], b, in)

\* ButterworthCrossoverStrategy.next(); in.signal: a crossover with enough
\* trend strength (1 up, -1 down).  The class has no notify_order.
ButterNext(s, b, in) ==
    IF s.order # None \/ ~in.ready \/ b.size # 0 THEN Result(s, b)
    ELSE IF in.signal = 1 /\ s.last_signal # 1
    THEN Result([s EXCEPT !.order = b.nextref, !.last_signal = 1],
                Submit(b, "buy", "market", None))
    ELSE IF in.signal = -1 /\ s.last_signal # -1
    THEN Result([s EXCEPT !.order = b.nextref, !.last_signal = -1],
                Submit(b, "sell", "market", None))
    ELSE Result(s, b)


(***************************************************************************)
(* The engine's loop over the bars                                         *)
(***************************************************************************)
\* what the indicators of a bar say to next()
NextInputs == [ready : BOOLEAN, signal : {-1, 0, 1}, exit : BOOLEAN, strong : BOOLEAN]

\* the same for OUMeanReversionStrategy, with what the regression gives
OuInputs ==
    [ready : BOOLEAN, signal : {-1, 0, 1}, exit : BOOLEAN, strong : {FALSE},
     regression : Regressions]

NextInputsOf(name) == IF name = "ou" THEN OuInputs ELSE NextInputs

\* params.lookback: the default, and a run configured with a short window
OuLookbacks == {9, OuLookback}

NotifyOrder(s, b, n) ==
    CASE s.name = "poly" -> PolyNotifyOrder(s, b, n)
      [] s.name = "vwap" -> VwapNotifyOrder(s, b, n)
      [] s.name = "vsa" -> VsaNotifyOrder(s, b, n)
      [] s.name = "vsapr" -> VsaprNotifyOrder(s, b, n)
      [] s.name = "ou" -> OuNotifyOrder(s, b, n)
      [] OTHER -> Result(s, b)

NotifyTrade(s) == IF s.name = "poly" THEN PolyNotifyTrade(s) ELSE s

StrategyNext(s, b, in) ==
    CASE s.name = "poly" -> PolyNext(s, b, in)
      [] s.name = "vwap" -> VwapNext(s, b, in)
      [] s.name = "vsa" -> VsaNext(s, b, in)
      [] s.name = "vsapr" -> VsaprNext(s, b, in)
      [] s.name = "ou" -> OuNext(s, b, in)
      [] OTHER -> ButterNext(s, b, in)

InitTrading ==
    /\ vol_period = DefaultVolPeriod
    /\ InitState
    /\ scenario = NoScenario
    /\ noise_in = <<NaN, NaN>>
    /\ noise_out = <<>>
    /\ roll = NoRoll
    /\ strat \in {NewStrategy(name) : name \in StrategyNames}
                \cup {[NewStrategy("ou") EXCEPT !.lookback = l] : l \in OuLookbacks}
    /\ broker = NewBroker

Running == strat.name # "none" /\ ~strat.crashed

\* a bar arrives: the broker works on the orders and hands out its reports
TradeBar(bar, atr, cash) ==
    /\ Running
    /\ ~broker.in_bar
    /\ broker.barno < MaxTradeBars
    /\ broker' = Deliver(BrokerBar(broker, bar, atr, cash))
    /\ UNCHANGED <<kalmanVars, roll, strat>>

\* the report n is final: the order is not pending any more
Final(n) == n.status \in {"Completed", "Canceled", "Margin", "Rejected"}

\* the strategy is told of one order
TradeNotifyOrder ==
    /\ Running
    /\ broker.in_bar
    /\ broker.notes # <<>>
    /\ \E r \in {NotifyOrder(strat,
                    [broker EXCEPT
                        !.notes = Tail(@),
                        !.unreported = IF Final(Head(broker.notes))
                                       THEN @ \ {Head(broker.notes).ref} ELSE @],
                    Head(broker.notes))} :
          strat' = r.s /\ broker' = r.b
    /\ UNCHANGED <<kalmanVars, roll>>

\* the strategy is told of the closed trade
TradeNotifyTrade ==
    /\ Running
    /\ broker.in_bar
    /\ broker.notes = <<>>
    /\ broker.trade_closed
    /\ strat' = NotifyTrade(strat)
    /\ broker' = [broker EXCEPT !.trade_closed = FALSE]
    /\ UNCHANGED <<kalmanVars, roll>>

\* has next() submitted an order of the pattern logic of the VSA classes: a
\* market order (their stop orders are Stop orders)
PatternOrder(name, before, after) ==
    /\ name \in {"vsa", "vsapr"}
    /\ \E i \in DOMAIN after.open :
          after.open[i].ref >= before.nextref /\ after.open[i].exectype = "market"

\* next() runs on the bar
TradeNext(in) ==
    /\ Running
    /\ broker.in_bar
    /\ broker.notes = <<>>
    /\ ~broker.trade_closed
    /\ \E r \in {StrategyNext(strat, broker, in)} :
          /\ strat' = r.s
          /\ broker' = [r.b EXCEPT
                            !.in_bar = FALSE,
                            !.pattern_bar = IF PatternOrder(strat.name, broker, r.b)
                                            THEN broker.barno ELSE @,
                            !.estimate = IF strat.name = "ou" /\ in.ready
                                         THEN <<EstimateOuParameters(strat.lookback,
                                                                     in.regression).eq_std>>
                                         ELSE @]
    /\ UNCHANGED <<kalmanVars, roll>>

NextTrading ==
    \/ \E bar \in TradeBars, atr \in TradeAtrs, cash \in BOOLEAN :
          TradeBar(bar, atr, cash)
    \/ TradeNotifyOrder
    \/ TradeNotifyTrade
    \/ \E in \in NextInputsOf(strat.name) : TradeNext(in)

SpecTrading == InitTrading /\ [][NextTrading]_vars

\* the model keeps within what it describes: one unit long, flat, or short
TradingTypeOK == broker.size \in {-1, 0, 1}

(***************************************************************************)
(* C19 and C20 (SpecTrading)                                               *)
(***************************************************************************)
TrailingStrategies == {"poly", "vwap", "vsa", "vsapr"}

\* a trailing stop level is set: not None, and not the 0 of the VSA classes
StopSet(s) == IF s.name \in {"vsa", "vsapr"} THEN s.trail > 0 ELSE s.trail # None

\* C19: in the four strategies with a trailing stop, over any step in which
\* the position stays long and a stop level is set before and after, the
\* level does not decrease, and with a short position it does not increase;
\* while the position is open the level is given up only by the next() that
\* submits the exit order.
C19_TrailingStop ==
    [][(strat.name \in TrailingStrategies /\ broker.size # 0
            /\ broker'.size = broker.size /\ StopSet(strat)) =>
          /\ (StopSet(strat') /\ broker.size = 1) => strat'.trail >= strat.trail
          /\ (StopSet(strat') /\ broker.size = -1) => strat'.trail <= strat.trail
          /\ ~StopSet(strat') => strat.order = None /\ strat'.order # None]_vars

\* a long position of PolynomialChannelBreakoutStrategy whose stop was raised
\* above the initial one
C19_Witness ==
    /\ strat.name = "poly"
    /\ broker.size = 1
    /\ strat.position_type = 1
    /\ strat.trail > strat.entry_price - PolyStopDistance(100)

OrderStrategies == {"poly", "ou", "vwap", "butter"}

\* the step is a call of next()
IsNext == broker.in_bar /\ ~broker'.in_bar

\* C20: in PolynomialChannelBreakout, OUMeanReversion, VWAPAnchoredBreakout
\* and ButterworthCrossover, run by the engine of the mains, no entry or exit
\* order is submitted while an earlier one has not been reported Completed,
\* Canceled, Margin or Rejected; a next() that finds self.order set changes
\* nothing and submits nothing; and notify_order clears self.order only once
\* such a final report of that order has been delivered.
C20_OneOrderAtATime ==
    /\ [](strat.name \in OrderStrategies => ~broker.overlap)
    /\ [][(strat.name \in OrderStrategies /\ IsNext /\ strat.order # None) =>
            strat' = strat /\ broker' = [broker EXCEPT !.in_bar = FALSE]]_vars
    /\ [][(strat.name \in OrderStrategies /\ strat.order # None
                /\ strat'.order = None) =>
            strat.order \notin broker'.unreported]_vars
    /\ [](strat.name \in OrderStrategies =>
            (strat.order # None => strat.order < broker.nextref)
            /\ (broker.unreported # {} => strat.order \in broker.unreported))

\* a second order of OUMeanReversionStrategy, pending alone after the first
\* was reported and cleared
C20_Witness ==
    /\ strat.name = "ou"
    /\ strat.order = 2
    /\ broker.unreported = {2}
    /\ broker.size = 1
    /\ ~broker.overlap

(***************************************************************************)
(* C21 (SpecTrading): the manual stops of PolynomialChannelBreakout and    *)
(* VWAPAnchoredBreakout                                                    *)
(***************************************************************************)
StopStrategies == {"poly", "vwap"}

\* the engine is about to call next(): the reports of the bar are delivered
AtNext ==
    /\ Running
    /\ broker.in_bar
    /\ broker.notes = <<>>
    /\ ~broker.trade_closed

\* the attributes after this bar's update_trailing_stop
AfterTrailUpdate(s, b) ==
    IF s.name = "poly" THEN PolyUpdateTrailingStop(s, b.close, b.atr)
    ELSE VwapUpdateTrailingStop(s, b)

\* the close is at or beyond a stop level of the open position
Crossed(size, price, level) ==
    /\ level # None
    /\ \/ size > 0 /\ price <= level
       \/ size < 0 /\ price >= level

StopCrossed(s, b) ==
    \/ Crossed(b.size, b.close, AfterTrailUpdate(s, b).trail)
    \/ s.name = "vwap" /\ Crossed(b.size, b.close, s.stop_price)

\* next() has submitted one order, closing the position, and nothing else
OneCloseOrder(b, r) ==
    /\ r.b.nextref = b.nextref + 1
    /\ r.s.order = b.nextref
    /\ Len(r.b.open) = Len(b.open) + 1
    /\ SubSeq(r.b.open, 1, Len(b.open)) = b.open
    /\ r.b.open[Len(r.b.open)].ref = b.nextref
    /\ r.b.open[Len(r.b.open)].side = CloseSide(b)
    /\ r.b.open[Len(r.b.open)].exectype = "market"

\* C21: whenever next() of PolynomialChannelBreakout or VWAPAnchoredBreakout
\* is called with a position open, no order pending and the indicators
\* ready, and the close is at or beyond the stop of the position (at or below
\* it for a long, at or above it for a short, the trailing stop taken after
\* this bar's update), next() submits exactly one order, which closes the
\* position, and no entry order.
C21_StopHitExits ==
    (AtNext /\ strat.name \in StopStrategies /\ broker.size # 0
        /\ strat.order = None /\ StopCrossed(strat, broker)) =>
      \A in \in NextInputs :
          in.ready => OneCloseOrder(broker, StrategyNext(strat, broker, in))

\* PolynomialChannelBreakout after the next() of a bar that closed at or below
\* the raised stop of its long position: the closing sell is the one order
C21_Witness ==
    /\ strat.name = "poly"
    /\ ~broker.in_bar
    /\ broker.size = 1
    /\ strat.position_type = 1
    /\ strat.trail > strat.entry_price - PolyStopDistance(100)
    /\ broker.close <= strat.trail
    /\ strat.order = broker.nextref - 1
    /\ Len(broker.open) = 1
    /\ broker.open[1].side = "sell"

(***************************************************************************)
(* C22 (SpecTrading): the spacing of the signals of the VSA classes        *)
(***************************************************************************)
SignalGap == 5

\* C22: in VSAStrategy and VSAPatternRecognition, a next() that submits an
\* order of the pattern logic (entry buy, entry sell, or the close on an
\* opposite signal) runs at least 5 bars after the bar of the previous such
\* order, and it sets last_signal_bar to the length of the data.
C22_SignalSpacing ==
    [][PatternOrder(strat.name, broker, broker') =>
          /\ broker.pattern_bar # None =>
                broker.barno - broker.pattern_bar >= SignalGap
          /\ strat'.last_signal_bar = DataLen(broker)]_vars

\* a position opened on the first bar is closed on a signal five bars later
C22_Witness ==
    /\ strat.name = "vsa"
    /\ broker.pattern_bar = 6
    /\ strat.last_signal_bar = 36
    /\ broker.size = 1
    /\ Len(broker.open) = 1
    /\ broker.open[1].side = "sell"
    /\ broker.open[1].exectype = "market"

(***************************************************************************)
(* C23 (SpecTrading): the stop order of VSAStrategy                        *)
(***************************************************************************)
\* the stop orders alive in the broker
AliveStops(b) == {i \in DOMAIN b.open : b.open[i].exectype = "stop"}

\* the order ref has been cancelled and its report is waiting
CancelQueued(b, ref) ==
    \E i \in DOMAIN b.queued : b.queued[i].ref = ref /\ b.queued[i].status = "Canceled"

StopOrderFailed ==
    /\ Running
    /\ broker.in_bar
    /\ broker.notes # <<>>
    /\ Head(broker.notes).status \in {"Canceled", "Rejected", "Margin"}
    /\ strat.stop_order # None
    /\ Head(broker.notes).ref = strat.stop_order

\* C24: when the stop order of VSAStrategy is reported Canceled, Rejected or
\* Margin, notify_order clears self.stop_order without raising, the cancel
\* of next() on a closing signal included, and the strategy goes on.
C24_StopFailureHandled ==
    [][(strat.name = "vsa" /\ StopOrderFailed) =>
          ~strat'.crashed /\ strat'.stop_order = None]_vars

(***************************************************************************)
(* levyflight_momentum_detection: one period of the walk-forward backtest, *)
(* run_strategy_period calling generate_signals.  A price series is its    *)
(* length; a signal is known by where its value comes from: "default" for  *)
(* the 0 the arrays are created with, "loop" for a value the rolling loop  *)
(* has stored.  The state is kept in `roll`.                               *)
(***************************************************************************)
MaxTrain == 5
MaxTest == 4
\* config.levy_window (50 in config.py), scaled down
LevyWindows == {2, 3}

Least(a, b) == IF a < b THEN a ELSE b

\* s[a:b] and s.iloc[a:b] of Python, 0 <= a, 0 <= b, on a sequence
Slice(s, a, b) == SubSeq(s, a + 1, Least(b, Len(s)))

\* s.tail(n)
TailOf(s, n) == SubSeq(s, Len(s) - Least(n, Len(s)) + 1, Len(s))

\* np.zeros(n) / pd.Series(0.0, index=...)
Zeros(n) == [k \in 1..n |-> "default"]

\* s.iloc[a:b] = v, for a value v of the length of the slice
SetSlice(s, a, b, v) ==
    [k \in 1..Len(s) |->
        IF k > a /\ k <= Least(b, Len(s)) /\ k - a <= Len(v) THEN v[k - a] ELSE s[k]]

\* returns of the prices: one fewer than the prices (pct_change, first row
\* dropped)
ReturnsLen(prices) == IF prices > 0 THEN prices - 1 ELSE 0

\* run_strategy_period up to the loop of generate_signals: train and test are
\* the lengths of train_data and test_data
LevyCall(w, train, test) ==
    [impl |-> "levy", levy_window |-> w, train |-> train, test |-> test,
     prices |-> Least(w, train) + test,
     returns |-> ReturnsLen(Least(w, train) + test),
     signals |-> Zeros(Least(w, train) + test),
     i |-> w,
     final_signals |-> <<>>, test_signals |-> <<>>, phase |-> "loop"]

InitLevy ==
    /\ vol_period = DefaultVolPeriod
    /\ InitState
    /\ scenario = NoScenario
    /\ noise_in = <<NaN, NaN>>
    /\ noise_out = <<>>
    /\ strat = NoStrat
    /\ broker = NoBroker
    /\ roll \in {LevyCall(w, train, test) :
                    w \in LevyWindows, train \in 0..MaxTrain, test \in 1..MaxTest}

\* generate_signals, one pass of `for i in range(levy_window, len(returns))`
LevyLoop ==
    /\ roll.impl = "levy"
    /\ roll.phase = "loop"
    /\ roll.i < roll.returns
    /\ roll' = [roll EXCEPT !.signals[roll.i + 1] = "loop", !.i = @ + 1]
    /\ UNCHANGED <<kalmanVars, strat, broker>>

\* generate_signals, lines 47-49: the signals are aligned with the prices
LevyAlign ==
    /\ roll.impl = "levy"
    /\ roll.phase = "loop"
    /\ roll.i >= roll.returns
    /\ roll' = [roll EXCEPT
                  !.final_signals =
                      IF roll.returns > 0
                      THEN SetSlice(Zeros(roll.prices), roll.levy_window + 1,
                                    roll.returns + 1,
                                    Slice(roll.signals, roll.levy_window, roll.returns))
                      ELSE Zeros(roll.prices),
                  !.phase = "aligned"]
    /\ UNCHANGED <<kalmanVars, strat, broker>>

\* run_strategy_period, line 32: the signals of the test period
LevyTestSignals ==
    /\ roll.impl = "levy"
    /\ roll.phase = "aligned"
    /\ roll' = [roll EXCEPT !.test_signals = TailOf(roll.final_signals, roll.test),
                            !.phase = "done"]
    /\ UNCHANGED <<kalmanVars, strat, broker>>

NextLevy == LevyLoop \/ LevyAlign \/ LevyTestSignals

SpecLevy == InitLevy /\ [][NextLevy]_vars

\* C25: when the training data has at least levy_window prices, every day of
\* the test period, the first one included, gets a signal stored by the
\* rolling loop and not the default 0.
C25_WarmUpCoversTest ==
    (roll.impl = "levy" /\ roll.phase = "done" /\ roll.train >= roll.levy_window) =>
        /\ Len(roll.test_signals) = roll.test
        /\ \A k \in 1..roll.test : roll.test_signals[k] = "loop"

(***************************************************************************)
(* C26 (SpecTrading): a failed estimate of OUMeanReversionStrategy         *)
(***************************************************************************)
\* C26: estimate_ou_parameters returns four None when it is given fewer than
\* 10 log prices or when the regression raises; and whenever the mu or the
\* eq_std it returns is None, or eq_std <= 0, next() returns with no z-score
\* recorded, position_type and self.order as they were and no order
\* submitted.
C26_EstimateFailureIsValue ==
    (AtNext /\ strat.name = "ou") =>
      \A in \in OuInputs :
        /\ (strat.lookback < 10 \/ in.regression.raises) =>
              EstimateOuParameters(strat.lookback, in.regression) = NoEstimate
        /\ \A est \in {EstimateOuParameters(strat.lookback, in.regression)} :
              (in.ready /\ (est.mu = FNone \/ est.eq_std = FNone
                              \/ FLe(est.eq_std, Zero))) =>
                 /\ OuNext(strat, broker, in).s.z_scores = strat.z_scores
                 /\ OuNext(strat, broker, in).s.position_type = strat.position_type
                 /\ OuNext(strat, broker, in).s.order = strat.order
                 /\ OuNext(strat, broker, in).b = broker

\* with a long position held, the next() of the bar got an estimate with
\* eq_std = 0 (a perfect fit) and has left everything as it was
C26_Witness ==
    /\ strat.name = "ou"
    /\ ~broker.in_bar
    /\ broker.size = 1
    /\ strat.position_type = 1
    /\ strat.order = None
    /\ strat.z_scores = 1
    /\ broker.barno = 2
    /\ broker.open = <<>>
    /\ broker.estimate = <<Zero>>
====
